---- MODULE Spec2Model ----
(***************************************************************************)
(* Todo API: bearer-token verification (utils/jwt.py, middleware/auth.py)  *)
(* and the six task handlers of routes/tasks.py over the tasks table.      *)
(*                                                                         *)
(* Spec     one server process.  Every handler is an `async def` with no   *)
(*          await in its body, so a handler runs from its guard to its     *)
(*          return without another handler in between: one action per      *)
(*          handler invocation (middleware dependency included).           *)
(* SpecConc several server processes on one database.  A mutating handler  *)
(*          is session.get (CBegin) followed later by session.commit       *)
(*          (CCommit); other processes' steps may come in between.         *)
(*                                                                         *)
(* A handler's parameters are the values FastAPI hands it: task_data is a  *)
(* TaskCreate / TaskUpdate instance (schemas.py), task_id an int.          *)
(***************************************************************************)
EXTENDS Integers, Sequences, FiniteSets, TLC

VARIABLES
    tasks,       \* the tasks table: id -> row, or NoTask
    nextId,      \* the next primary key the table assigns
    now,         \* the wall clock (datetime.utcnow / time.time)
    tz,          \* the process's local UTC offset (datetime.fromtimestamp)
    pc,          \* "idle", or "handler": a request has passed the middleware
    auth_header, \* the Authorization header of the latest request
    req,         \* the parameters its handler was called with
    resp,        \* the response to it
    state_user,  \* request.state.user_id of that request
    touched,     \* whether that request's handler used its session
    hist,        \* id -> completed values before the latest toggles in a row
    sess         \* SpecConc: process -> its open session

vars ==
    <<tasks, nextId, now, tz, pc, auth_header, req, resp, state_user, touched,
      hist, sess>>

----------------------------------------------------------------------------
(* Bounds *)

MaxTasks == 2
MaxTime == 4
NProcs == 2

(* Program constants *)

MaxTitleLen == 200
MaxDescLen == 1000
MinTitleLen == 1

----------------------------------------------------------------------------
(* Values *)

\* Python's Optional: None, or Some(v).
None == <<>>
Some(v) == <<v>>
Val(o) == o[1]

\* No row: what session.get returns for a missing primary key.
NoTask == [missing |-> TRUE]

Users == {"u1", "u2"}
TaskIds == 1..MaxTasks
Procs == 1..NProcs

SECRET_KEY == "secret"

\* One hour of local-time offset, in clock units.
TzShift == 2

Whitespace == {" ", "\t", "\n"}

RECURSIVE Rep(_, _)
Rep(c, n) == IF n = 0 THEN <<>> ELSE <<c>> \o Rep(c, n - 1)

\* str.strip(): leading and trailing whitespace removed.
RECURSIVE LStrip(_)
LStrip(s) ==
    IF s # <<>> /\ Head(s) \in Whitespace THEN LStrip(Tail(s)) ELSE s

RECURSIVE RStrip(_)
RStrip(s) ==
    IF s # <<>> /\ s[Len(s)] \in Whitespace
    THEN RStrip(SubSeq(s, 1, Len(s) - 1))
    ELSE s

Strip(s) == RStrip(LStrip(s))

\* str.lower() on the authorization schemes the model sends.
Lower(s) ==
    CASE s = "Bearer" -> "bearer"
      [] s = "BEARER" -> "bearer"
      [] s = "Basic" -> "basic"
      [] OTHER -> s

----------------------------------------------------------------------------
(* utils/jwt.py *)

\* A bearer token: whether it parses as a JWT, the key its HS256 signature
\* was made with, and its claims (None: the claim is absent).
Claims(sub, email, exp) == [sub |-> sub, email |-> email, exp |-> exp]

Token(wellformed, key, claims) ==
    [wellformed |-> wellformed, key |-> key, claims |-> claims]

\* The exp claim the model's expiring tokens carry.
TokExp == MaxTime - 1

Tokens ==
    { Token(FALSE, SECRET_KEY, Claims(Some("u1"), Some("e"), None)),
      Token(TRUE, "other", Claims(Some("u1"), Some("e"), None)),
      Token(TRUE, SECRET_KEY, Claims(Some("u1"), Some("e"), None)),
      Token(TRUE, SECRET_KEY, Claims(Some("u1"), Some("e"), Some(TokExp))),
      Token(TRUE, SECRET_KEY, Claims(Some("u2"), Some("e"), None)),
      Token(TRUE, SECRET_KEY, Claims(Some("u2"), Some("e"), Some(TokExp))),
      Token(TRUE, SECRET_KEY, Claims(None, Some("e"), None)),
      Token(TRUE, SECRET_KEY, Claims(None, None, None)) }

InvalidTokenError == [raised |-> "InvalidTokenError"]

\* jwt.decode(token, key, algorithms=["HS256"]): the claims, or
\* InvalidTokenError for a token that does not parse, whose signature was
\* not made with key, or whose exp claim is not after the clock reading t.
JwtDecode(token, key, t) ==
    IF ~token.wellformed THEN InvalidTokenError
    ELSE IF token.key # key THEN InvalidTokenError
    ELSE IF token.claims.exp # None /\ Val(token.claims.exp) <= t
         THEN InvalidTokenError
    ELSE token.claims

\* The handler's own expiry test: `exp and fromtimestamp(exp) < utcnow()`.
\* fromtimestamp gives local time (exp + off), utcnow gives UTC (t).
ExpiredLocally(exp, t, off) ==
    exp # None /\ Val(exp) # 0 /\ Val(exp) + off < t

\* verify_jwt with the library's expiry check switched off
\* (options={"verify_exp": False}), leaving only the handler's own test.
verify_jwt_own_expiry_only(token, t, off) ==
    IF ~token.wellformed \/ token.key # SECRET_KEY THEN None
    ELSE IF ExpiredLocally(token.claims.exp, t, off) THEN None
    ELSE Some(token.claims)

\* verify_jwt: the payload, or None.
verify_jwt(token, t, off) ==
    LET payload == JwtDecode(token, SECRET_KEY, t)
    IN  IF payload = InvalidTokenError THEN None
        ELSE IF ExpiredLocally(payload.exp, t, off) THEN None
        ELSE Some(payload)

\* Python truthiness of verify_jwt's result: None and the empty dict are falsy.
Falsy(payload) ==
    \/ payload = None
    \/ /\ Val(payload).sub = None
       /\ Val(payload).email = None
       /\ Val(payload).exp = None

----------------------------------------------------------------------------
(* Responses *)

\* ApiResponse(success=True, data=...): error keeps its default.
ApiResponse(data) == [success |-> TRUE, data |-> data, error |-> None]

Ok(code, data) == [status |-> code, body |-> ApiResponse(data)]

\* raise HTTPException(status_code, detail): main.py registers no exception
\* handler, so the body is the framework's {"detail": detail}.
HTTPException(code, detail) == [status |-> code, body |-> [detail |-> detail]]

----------------------------------------------------------------------------
(* middleware/auth.py *)

\* request.headers.get("Authorization"): None, or the header, given by its
\* whitespace-separated parts (what auth_header.split() returns).
Headers ==
    {None}
    \cup {Some(<<"Basic", Token(TRUE, SECRET_KEY, Claims(Some("u1"), Some("e"), None))>>)}
    \cup {Some(<<"Bearer">>)}
    \cup {Some(<<"Bearer", tok>>) : tok \in Tokens}
    \cup {Some(<<"BEARER", Token(TRUE, SECRET_KEY, Claims(Some("u2"), Some("e"), None))>>)}

\* verify_jwt_middleware: either the exception it raises, or the user_id it
\* attaches to request.state.
verify_jwt_middleware(header, t, off) ==
    IF header = None
    THEN [raised |-> TRUE,
          exc |-> HTTPException(401, "Missing Authorization header")]
    ELSE IF Len(Val(header)) # 2 \/ Lower(Val(header)[1]) # "bearer"
    THEN [raised |-> TRUE,
          exc |-> HTTPException(401,
                "Invalid Authorization header format. Expected: Bearer <token>")]
    ELSE LET payload == verify_jwt(Val(header)[2], t, off)
         IN  IF Falsy(payload)
             THEN [raised |-> TRUE,
                   exc |-> HTTPException(401, "Invalid or expired token")]
             ELSE [raised |-> FALSE, user_id |-> Val(payload).sub]

----------------------------------------------------------------------------
(* schemas.py, models.py *)

\* Strings are sequences of characters.
LongTitle == Rep("a", MaxTitleLen)

\* TaskCreate: title required, min_length=1, max_length=200;
\* description optional, max_length=1000.
TaskCreateValid(data) ==
    /\ Len(data.title) >= MinTitleLen
    /\ Len(data.title) <= MaxTitleLen
    /\ data.description # None => Len(Val(data.description)) <= MaxDescLen

\* The bodies POST is sent: the handler is called for those that validate.
TaskCreate ==
    { [title |-> <<" ">>, description |-> None],
      [title |-> <<" ", "b", "\t">>, description |-> Some(<<" ", "d">>)],
      [title |-> LongTitle, description |-> Some(<<>>)],
      [title |-> <<>>, description |-> None],
      [title |-> LongTitle \o <<"a">>, description |-> None] }

\* TaskUpdate: both fields optional, same length constraints.
TaskUpdateValid(data) ==
    /\ data.title # None =>
         /\ Len(Val(data.title)) >= MinTitleLen
         /\ Len(Val(data.title)) <= MaxTitleLen
    /\ data.description # None => Len(Val(data.description)) <= MaxDescLen

\* The bodies PUT is sent.
TaskUpdate ==
    { [title |-> None, description |-> None],
      [title |-> None, description |-> Some(<<"d", " ">>)],
      [title |-> None, description |-> Some(<<>>)],
      [title |-> Some(<<"\n", "c">>), description |-> None],
      [title |-> Some(<<" ">>), description |-> Some(<<" ", "d">>)],
      [title |-> Some(<<>>), description |-> None],
      [title |-> Some(LongTitle \o <<"a">>), description |-> None] }

\* A request without a body.
NoBody == [nobody |-> TRUE]

\* Task(user_id, title, description, completed): a row of the tasks table.
\* created_at and updated_at come from their default factories, two
\* separate readings c and u of the clock.
Task(id, user_id, title, description, c, u) ==
    [id |-> id, user_id |-> user_id, title |-> title,
     description |-> description, completed |-> FALSE,
     created_at |-> c, updated_at |-> u]

\* TaskResponse.model_validate(task).model_dump(): the row's seven fields.
TaskResponse(task) ==
    [id |-> task.id, user_id |-> task.user_id, title |-> task.title,
     description |-> task.description, completed |-> task.completed,
     created_at |-> task.created_at, updated_at |-> task.updated_at]

Rows(store) == {store[i] : i \in {j \in DOMAIN store : store[j] # NoTask}}

----------------------------------------------------------------------------
(* routes/tasks.py *)

\* filter_status is any string: "pending" and "completed" filter, the rest do not.
Filters == {"all", "pending", "completed", "other"}

\* The guard left out.
ForbiddenNever(state_uid, user_id) == FALSE

\* The guard every handler starts with: request.state.user_id != user_id.
Forbidden(state_uid, user_id) == state_uid # Some(user_id)

\* The ownership test reduced to `not task`.
NotFoundMissingOnly(task, user_id) == task = NoTask

\* `not task or task.user_id != user_id`.
NotFound(task, user_id) == task = NoTask \/ task.user_id # user_id

\* The query without its where(Task.user_id == user_id).
SelectedAnyOwner(store, user_id, filter_status) ==
    { r \in Rows(store) :
        /\ filter_status = "pending" => r.completed = FALSE
        /\ filter_status = "completed" => r.completed = TRUE }

\* select(Task).where(Task.user_id == user_id) and the status filter.
Selected(store, user_id, filter_status) ==
    { r \in Rows(store) :
        /\ r.user_id = user_id
        /\ filter_status = "pending" => r.completed = FALSE
        /\ filter_status = "completed" => r.completed = TRUE }

\* order_by(Task.created_at.desc()).
RECURSIVE OrderByCreatedDesc(_)
OrderByCreatedDesc(rows) ==
    IF rows = {} THEN <<>>
    ELSE LET first == CHOOSE r \in rows :
                        \A q \in rows : q.created_at <= r.created_at
         IN  <<first>> \o OrderByCreatedDesc(rows \ {first})

RECURSIVE MapResponse(_)
MapResponse(seq) ==
    IF seq = <<>> THEN <<>>
    ELSE <<TaskResponse(Head(seq))>> \o MapResponse(Tail(seq))

\* What a handler run leaves behind.
Outcome(response, store, nid, clock, used, h) ==
    [resp |-> response, tasks |-> store, nextId |-> nid, now |-> clock,
     touched |-> used, hist |-> h]

\* A handler that raised before using its session.
Raised(exc, t) == Outcome(exc, tasks, nextId, t, FALSE, hist)

list_tasks(r, state_uid, t) ==
    IF Forbidden(state_uid, r.user_id)
    THEN Raised(HTTPException(403, "Cannot access other users' tasks"), t)
    ELSE LET found == OrderByCreatedDesc(
                        Selected(tasks, r.user_id, r.filter_status))
         IN  Outcome(Ok(200, MapResponse(found)), tasks, nextId, t, TRUE, hist)

\* The row create_task inserts: title and description stripped, an empty
\* description stored as None.
NewTask(id, user_id, data, c, u) ==
    Task(id, user_id, Strip(data.title),
         IF data.description # None /\ Val(data.description) # <<>>
         THEN Some(Strip(Val(data.description)))
         ELSE None,
         c, u)

create_task(r, state_uid, t, u) ==
    IF Forbidden(state_uid, r.user_id)
    THEN Raised(HTTPException(403, "Cannot create tasks for other users"), t)
    ELSE LET task == NewTask(nextId, r.user_id, r.task_data, t, u)
         IN  Outcome(Ok(201, TaskResponse(task)),
                     [tasks EXCEPT ![nextId] = task], nextId + 1, u, TRUE,
                     [hist EXCEPT ![nextId] = <<>>])

get_task(r, state_uid, t) ==
    IF Forbidden(state_uid, r.user_id)
    THEN Raised(HTTPException(403, "Cannot access other users' tasks"), t)
    ELSE LET task == tasks[r.task_id]
         IN  IF NotFound(task, r.user_id)
             THEN Outcome(HTTPException(404, "Task not found"),
                          tasks, nextId, t, TRUE, hist)
             ELSE Outcome(Ok(200, TaskResponse(task)),
                          tasks, nextId, t, TRUE, hist)

\* update_task without `task.updated_at = datetime.utcnow()`.
UpdatedKeepsTimestamp(task, data, t) ==
    [task EXCEPT
        !.title = IF data.title # None THEN Strip(Val(data.title)) ELSE @,
        !.description = IF data.description # None
                        THEN Some(Strip(Val(data.description)))
                        ELSE @]

\* update_task assigning description the way create_task does: None when
\* none is supplied.
UpdatedClearsDescription(task, data, t) ==
    [task EXCEPT
        !.title = IF data.title # None THEN Strip(Val(data.title)) ELSE @,
        !.description = IF data.description # None
                        THEN Some(Strip(Val(data.description)))
                        ELSE None,
        !.updated_at = t]

\* update_task's assignments: the supplied fields, stripped, and updated_at.
Updated(task, data, t) ==
    [task EXCEPT
        !.title = IF data.title # None THEN Strip(Val(data.title)) ELSE @,
        !.description = IF data.description # None
                        THEN Some(Strip(Val(data.description)))
                        ELSE @,
        !.updated_at = t]

update_task(r, state_uid, t) ==
    IF Forbidden(state_uid, r.user_id)
    THEN Raised(HTTPException(403, "Cannot update other users' tasks"), t)
    ELSE LET task == tasks[r.task_id]
         IN  IF NotFound(task, r.user_id)
             THEN Outcome(HTTPException(404, "Task not found"),
                          tasks, nextId, t, TRUE, hist)
             ELSE LET new == Updated(task, r.task_data, t)
                  IN  Outcome(Ok(200, TaskResponse(new)),
                              [tasks EXCEPT ![r.task_id] = new], nextId, t,
                              TRUE, [hist EXCEPT ![r.task_id] = <<>>])

delete_task(r, state_uid, t) ==
    IF Forbidden(state_uid, r.user_id)
    THEN Raised(HTTPException(403, "Cannot delete other users' tasks"), t)
    ELSE LET task == tasks[r.task_id]
         IN  IF NotFound(task, r.user_id)
             THEN Outcome(HTTPException(404, "Task not found"),
                          tasks, nextId, t, TRUE, hist)
             ELSE Outcome(Ok(200, [message |-> "Task deleted successfully"]),
                          [tasks EXCEPT ![r.task_id] = NoTask], nextId, t,
                          TRUE, [hist EXCEPT ![r.task_id] = <<>>])

\* toggle_task_completion marking the task completed instead of flipping.
ToggledSetsTrue(task, t) ==
    [task EXCEPT !.completed = TRUE, !.updated_at = t]

\* toggle_task_completion's assignments.
Toggled(task, t) ==
    [task EXCEPT !.completed = ~@, !.updated_at = t]

\* The completed values seen before the latest toggles of one task, the
\* last two kept.
Remember(h, completed) ==
    IF h = <<>> THEN <<completed>> ELSE <<h[Len(h)], completed>>

toggle_task_completion(r, state_uid, t) ==
    IF Forbidden(state_uid, r.user_id)
    THEN Raised(HTTPException(403, "Cannot update other users' tasks"), t)
    ELSE LET task == tasks[r.task_id]
         IN  IF NotFound(task, r.user_id)
             THEN Outcome(HTTPException(404, "Task not found"),
                          tasks, nextId, t, TRUE, hist)
             ELSE LET new == Toggled(task, t)
                  IN  Outcome(Ok(200, TaskResponse(new)),
                              [tasks EXCEPT ![r.task_id] = new], nextId, t,
                              TRUE,
                              [hist EXCEPT ![r.task_id] =
                                  Remember(@, task.completed)])

----------------------------------------------------------------------------
(* One server process.  FastAPI first runs the route's dependency          *)
(* verify_jwt_middleware, which attaches the identity to request.state or  *)
(* raises, and then calls the handler with the request's parameters.       *)

Request(op, user_id, task_id, task_data, filter_status) ==
    [op |-> op, user_id |-> user_id, task_id |-> task_id,
     task_data |-> task_data, filter_status |-> filter_status]

NoRequest == Request("none", "", 0, NoBody, "all")

NoResponse == [status |-> 0, body |-> [none |-> TRUE]]

\* request.state before the middleware has attached anything.
NoIdentity == [set |-> FALSE, value |-> None]

Identity(sub) == [set |-> TRUE, value |-> sub]

Idle == [pc |-> "idle"]

\* A request arrives: the clock has moved on since the last one, and the
\* dependency runs on its Authorization header.
VerifyJwtMiddleware ==
    \E auth \in Headers :
        /\ pc = "idle"
        /\ now < MaxTime
        /\ LET mw == verify_jwt_middleware(auth, now + 1, tz)
           IN  /\ state_user' =
                    IF mw.raised THEN NoIdentity ELSE Identity(mw.user_id)
               /\ resp' = IF mw.raised THEN mw.exc ELSE NoResponse
               /\ pc' = IF mw.raised THEN "idle" ELSE "handler"
        /\ now' = now + 1
        /\ auth_header' = auth
        /\ req' = NoRequest
        /\ touched' = FALSE
        /\ UNCHANGED <<tasks, nextId, tz, hist, sess>>

\* The handler runs to its return or its exception.
Serve(r, out) ==
    /\ pc' = "idle"
    /\ req' = r
    /\ resp' = out.resp
    /\ tasks' = out.tasks
    /\ nextId' = out.nextId
    /\ now' = out.now
    /\ touched' = out.touched
    /\ hist' = out.hist
    /\ UNCHANGED <<tz, auth_header, state_user, sess>>

ListTasks ==
    \E user_id \in Users, f \in Filters :
        /\ pc = "handler"
        /\ LET r == Request("list", user_id, 0, NoBody, f)
           IN  Serve(r, list_tasks(r, state_user.value, now))

CreateTask ==
    \E user_id \in Users, data \in TaskCreate, d \in {0, 1} :
        /\ pc = "handler"
        /\ TaskCreateValid(data)
        /\ now + d <= MaxTime
        /\ nextId <= MaxTasks
        /\ LET r == Request("create", user_id, 0, data, "all")
           IN  Serve(r, create_task(r, state_user.value, now, now + d))

GetTask ==
    \E user_id \in Users, task_id \in TaskIds :
        /\ pc = "handler"
        /\ LET r == Request("get", user_id, task_id, NoBody, "all")
           IN  Serve(r, get_task(r, state_user.value, now))

UpdateTask ==
    \E user_id \in Users, task_id \in TaskIds, data \in TaskUpdate :
        /\ pc = "handler"
        /\ TaskUpdateValid(data)
        /\ LET r == Request("update", user_id, task_id, data, "all")
           IN  Serve(r, update_task(r, state_user.value, now))

DeleteTask ==
    \E user_id \in Users, task_id \in TaskIds :
        /\ pc = "handler"
        /\ LET r == Request("delete", user_id, task_id, NoBody, "all")
           IN  Serve(r, delete_task(r, state_user.value, now))

ToggleTaskCompletion ==
    \E user_id \in Users, task_id \in TaskIds :
        /\ pc = "handler"
        /\ LET r == Request("toggle", user_id, task_id, NoBody, "all")
           IN  Serve(r, toggle_task_completion(r, state_user.value, now))

Init ==
    /\ tasks = [i \in TaskIds |-> NoTask]
    /\ nextId = 1
    /\ now = 1
    /\ tz \in {0 - TzShift, 0, TzShift}
    /\ pc = "idle"
    /\ auth_header = None
    /\ req = NoRequest
    /\ resp = NoResponse
    /\ state_user = NoIdentity
    /\ touched = FALSE
    /\ hist = [i \in TaskIds |-> <<>>]
    /\ sess = [p \in Procs |-> Idle]

Next ==
    \/ VerifyJwtMiddleware
    \/ ListTasks
    \/ CreateTask
    \/ GetTask
    \/ UpdateTask
    \/ DeleteTask
    \/ ToggleTaskCompletion

Spec == Init /\ [][Next]_vars

----------------------------------------------------------------------------
(* Several server processes on one database.  create_engine is called      *)
(* with the URL alone and get_session opens a plain Session: session.get   *)
(* is a SELECT without FOR UPDATE, session.commit flushes an UPDATE or     *)
(* DELETE by primary key of what the handler changed, at the database's    *)
(* default isolation.  Requests here have passed the middleware as `who`.  *)

Loaded(r, who, task, obj) ==
    [pc |-> "loaded", r |-> r, who |-> who, task |-> task, obj |-> obj]

\* The attributes the handler assigned a new value: what the UPDATE sets.
Flush(row, task, obj) ==
    [row EXCEPT
        !.title = IF obj.title # task.title THEN obj.title ELSE @,
        !.description =
            IF obj.description # task.description THEN obj.description ELSE @,
        !.completed = IF obj.completed # task.completed THEN obj.completed ELSE @,
        !.updated_at =
            IF obj.updated_at # task.updated_at THEN obj.updated_at ELSE @]

\* An UPDATE that matches no row: the ORM raises StaleDataError, which no
\* handler catches.
ServerError ==
    [status |-> 500, body |-> [text |-> "Internal Server Error"]]

CCreate ==
    \E who \in Users, data \in TaskCreate :
        /\ TaskCreateValid(data)
        /\ now < MaxTime
        /\ nextId <= MaxTasks
        /\ LET r == Request("create", who, 0, data, "all")
               out == create_task(r, Some(who), now + 1, now + 1)
           IN  /\ req' = r
               /\ resp' = out.resp
               /\ tasks' = out.tasks
               /\ nextId' = out.nextId
               /\ now' = out.now
        /\ UNCHANGED <<tz, pc, auth_header, state_user, touched, hist, sess>>

\* The handler up to its session.commit(): guard, session.get, ownership
\* test, assignments.
CBegin ==
    \E p \in Procs, who \in Users, user_id \in Users, task_id \in TaskIds,
       op \in {"update", "delete", "toggle"}, data \in TaskUpdate :
        /\ sess[p].pc = "idle"
        /\ now < MaxTime
        /\ op = "update" => TaskUpdateValid(data)
        /\ op # "update" => data = [title |-> None, description |-> None]
        /\ LET r == Request(op, user_id, task_id,
                            IF op = "update" THEN data ELSE NoBody, "all")
               t == now + 1
               task == tasks[task_id]
           IN  IF Forbidden(Some(who), user_id)
               THEN /\ resp' = HTTPException(403,
                                  IF op = "delete"
                                  THEN "Cannot delete other users' tasks"
                                  ELSE "Cannot update other users' tasks")
                    /\ req' = r
                    /\ sess' = sess
               ELSE IF NotFound(task, user_id)
               THEN /\ resp' = HTTPException(404, "Task not found")
                    /\ req' = r
                    /\ sess' = sess
               ELSE /\ sess' = [sess EXCEPT ![p] =
                          Loaded(r, who, task,
                                 CASE op = "update" -> Updated(task, data, t)
                                   [] op = "toggle" -> Toggled(task, t)
                                   [] OTHER -> task)]
                    /\ UNCHANGED <<req, resp>>
        /\ now' = now + 1
        /\ UNCHANGED <<tasks, nextId, tz, pc, auth_header, state_user, touched,
                       hist>>

\* session.commit(), session.refresh(task) and the return.
CCommit ==
    \E p \in Procs :
        /\ sess[p].pc = "loaded"
        /\ LET s == sess[p]
               id == s.r.task_id
               row == tasks[id]
           IN  /\ req' = s.r
               /\ IF s.r.op = "delete"
                  THEN /\ tasks' = [tasks EXCEPT ![id] = NoTask]
                       /\ resp' = Ok(200,
                                     [message |-> "Task deleted successfully"])
                  ELSE IF row = NoTask
                  THEN /\ tasks' = tasks
                       /\ resp' = ServerError
                  ELSE LET new == Flush(row, s.task, s.obj)
                       IN  /\ tasks' = [tasks EXCEPT ![id] = new]
                           /\ resp' = Ok(200, TaskResponse(new))
        /\ sess' = [sess EXCEPT ![p] = Idle]
        /\ UNCHANGED <<nextId, now, tz, pc, auth_header, state_user, touched,
                       hist>>

NextConc ==
    \/ CCreate
    \/ CBegin
    \/ CCommit

SpecConc == Init /\ [][NextConc]_vars

----------------------------------------------------------------------------
(* Properties *)

\* A step of Spec in which a handler ran: req' holds its parameters,
\* state_user the identity the middleware attached, resp' its response.
HandlerStep == pc = "handler" /\ pc' = "idle"

\* The state a handler has just left.
Handled == pc = "idle" /\ req.op # "none"

Success(response) == response.status \in {200, 201}

\* The task rows a success response carries.
ReturnedRows(r, response) ==
    IF ~Success(response) \/ r.op = "delete" THEN {}
    ELSE IF r.op = "list"
    THEN {response.body.data[k] : k \in 1..Len(response.body.data)}
    ELSE {response.body.data}

\* C1: a task's data is returned in a success response, and a task is
\* changed or removed, only by a request whose verified token identity is
\* the task's owner; in particular list returns no task of another owner.
C1_OwnerOnly ==
    [][HandlerStep =>
        /\ \A i \in TaskIds :
              (tasks[i] # NoTask /\ tasks'[i] # tasks[i]) =>
                  /\ state_user.set
                  /\ state_user.value = Some(tasks[i].user_id)
        /\ \A row \in ReturnedRows(req', resp') :
              /\ state_user.set
              /\ state_user.value = Some(row.user_id)
              /\ tasks'[row.id] # NoTask
              /\ tasks'[row.id].user_id = row.user_id]_vars

\* A list answered with a task while another owner's task is in the table.
C1_Witness ==
    /\ Handled
    /\ req.op = "list"
    /\ Success(resp)
    /\ Len(resp.body.data) >= 1
    /\ \E i \in TaskIds : tasks[i] # NoTask /\ tasks[i].user_id # req.user_id

\* C2: in each of the six handlers, a request whose verified identity is
\* not the identity in the path gets 403 (never 404), whether or not the
\* task id exists and whoever owns it, before the session is used; the
\* table is unchanged.
C2_ForbiddenFirst ==
    [][(HandlerStep /\ state_user.value # Some(req'.user_id)) =>
        /\ req'.op \in {"list", "create", "get", "update", "delete", "toggle"}
        /\ resp'.status = 403
        /\ ~touched'
        /\ tasks' = tasks
        /\ nextId' = nextId]_vars

\* A delete under another identity's path, of a task that exists there.
C2_Witness ==
    /\ Handled
    /\ req.op = "delete"
    /\ state_user.set
    /\ state_user.value # Some(req.user_id)
    /\ resp.status = 403
    /\ tasks[req.task_id] # NoTask
    /\ tasks[req.task_id].user_id = req.user_id

\* C3: get, update, delete and toggle by identity U under U's own path, on
\* the id of a task owned by someone else, answer 404 "Task not found",
\* the answer for an id that does not exist, and leave the task unchanged.
C3_NotFoundForOthers ==
    [][(/\ HandlerStep
        /\ req'.op \in {"get", "update", "delete", "toggle"}
        /\ state_user.value = Some(req'.user_id)
        /\ \/ tasks[req'.task_id] = NoTask
           \/ tasks[req'.task_id].user_id # req'.user_id) =>
        /\ resp'.status = 404
        /\ resp'.body = [detail |-> "Task not found"]
        /\ tasks' = tasks]_vars

\* An update by U, under U's path, of a task that exists and is not U's.
C3_Witness ==
    /\ Handled
    /\ req.op = "update"
    /\ state_user.value = Some(req.user_id)
    /\ tasks[req.task_id] # NoTask
    /\ tasks[req.task_id].user_id # req.user_id
    /\ resp.status = 404

\* C4: two requests that mutate the same task id are serialized per row:
\* a request never commits on a row another request has deleted since it
\* read it, and a toggle never writes from a stale read, so that every
\* committed toggle flips the stored completed (two concurrent toggles
\* leave it at its original value).
C4_SerializedPerRow ==
    [][\A p \in Procs :
          (sess[p].pc = "loaded" /\ sess'[p].pc = "idle") =>
              LET id == sess[p].r.task_id
              IN  /\ tasks[id] # NoTask
                  /\ sess[p].r.op = "toggle" =>
                        /\ tasks[id].completed = sess[p].task.completed
                        /\ tasks'[id].completed = ~tasks[id].completed]_vars

\* C5: every response has the envelope shape {success, data, error}; a
\* success has success = TRUE, and a 401, 403 or 404 has success = FALSE
\* with error populated.
C5_Envelope ==
    resp # NoResponse =>
        /\ DOMAIN resp.body = {"success", "data", "error"}
        /\ Success(resp) => resp.body.success = TRUE
        /\ resp.status \in {401, 403, 404} =>
              /\ resp.body.success = FALSE
              /\ resp.body.error # None

\* The latest request's header carried a token to verify_jwt.
Presented ==
    /\ auth_header # None
    /\ Len(Val(auth_header)) = 2
    /\ Lower(Val(auth_header)[1]) = "bearer"

\* The middleware has just run: now is the instant of verification.
JustVerified == pc = "handler" \/ (pc = "idle" /\ req.op = "none" /\ resp # NoResponse)

\* C6: verify_jwt returns the token's claims only for a token that is well
\* formed, signed with the process secret, and whose expiry claim (if it
\* carries one) is strictly after the instant of verification; for a bad
\* signature, a malformed token or an expiry at or before now it returns
\* None, and the middleware answers 401 "Invalid or expired token" and
\* attaches no identity.
C6_VerifyJwt ==
    (JustVerified /\ Presented) =>
        LET token == Val(auth_header)[2]
            exp == token.claims.exp
            good == /\ token.wellformed
                    /\ token.key = SECRET_KEY
                    /\ exp # None => Val(exp) > now
            result == verify_jwt(token, now, tz)
        IN  /\ result # None => (good /\ Val(result) = token.claims)
            /\ state_user.set => (good /\ state_user.value = token.claims.sub)
            /\ ~good =>
                  /\ result = None
                  /\ resp.status = 401
                  /\ resp.body = [detail |-> "Invalid or expired token"]
                  /\ ~state_user.set
                  /\ pc = "idle"

\* A well-signed token verified at the very instant of its expiry.
C6_Witness ==
    /\ JustVerified
    /\ Presented
    /\ Val(auth_header)[2].wellformed
    /\ Val(auth_header)[2].key = SECRET_KEY
    /\ Val(auth_header)[2].claims.exp = Some(now)
    /\ resp.status = 401

\* C7: two toggles of a task by its owner, one after the other with no
\* other mutation of the task in between, both succeed, and the second
\* response's completed is the value the task had before the first.
C7_ToggleTwice ==
    [][(/\ HandlerStep
        /\ req'.op = "toggle"
        /\ hist[req'.task_id] # <<>>
        /\ tasks[req'.task_id] # NoTask
        /\ req'.user_id = tasks[req'.task_id].user_id
        /\ state_user.value = Some(req'.user_id)) =>
        /\ resp'.status = 200
        /\ resp'.body.success = TRUE
        /\ resp'.body.data.completed =
              hist[req'.task_id][Len(hist[req'.task_id])]
        /\ tasks'[req'.task_id].completed = resp'.body.data.completed]_vars

\* The second of two toggles in a row has been answered.
C7_Witness ==
    /\ Handled
    /\ req.op = "toggle"
    /\ resp.status = 200
    /\ Len(hist[req.task_id]) = 2
    /\ resp.body.data.completed = hist[req.task_id][1]

\* C8: a successful toggle or update leaves the task's updated_at strictly
\* greater than it was before the call, whichever fields the call changed,
\* and so not below created_at.
C8_UpdatedAtIncreases ==
    [][(/\ HandlerStep
        /\ req'.op \in {"toggle", "update"}
        /\ resp'.status = 200) =>
        /\ tasks[req'.task_id] # NoTask
        /\ tasks'[req'.task_id] # NoTask
        /\ tasks'[req'.task_id].updated_at > tasks[req'.task_id].updated_at
        /\ tasks'[req'.task_id].updated_at >= tasks'[req'.task_id].created_at
        /\ resp'.body.data.updated_at = tasks'[req'.task_id].updated_at]_vars

\* An update that supplies no field has succeeded.
C8_Witness ==
    /\ Handled
    /\ req.op = "update"
    /\ resp.status = 200
    /\ req.task_data = [title |-> None, description |-> None]
    /\ tasks[req.task_id].updated_at > tasks[req.task_id].created_at

\* No leading and no trailing whitespace.
Trimmed(str) ==
    str = <<>> \/ (str[1] \notin Whitespace /\ str[Len(str)] \notin Whitespace)

\* out is inp without its surrounding whitespace.
IsTrimOf(out, inp) ==
    /\ Trimmed(out)
    /\ \E i \in 0..Len(inp) :
          /\ i + Len(out) <= Len(inp)
          /\ SubSeq(inp, i + 1, i + Len(out)) = out
          /\ \A k \in 1..Len(inp) :
                (k <= i \/ k > i + Len(out)) => inp[k] \in Whitespace

\* C9: every stored task's title is a non-empty string of at most 200
\* characters with no surrounding whitespace.
C9_TitleInvariant ==
    \A i \in TaskIds :
        tasks[i] # NoTask =>
            /\ Len(tasks[i].title) >= 1
            /\ Len(tasks[i].title) <= MaxTitleLen
            /\ Trimmed(tasks[i].title)

\* C10: a successful update changes title only if a title was supplied and
\* description only if a description was supplied, each stored trimmed;
\* id, owner, completed and created_at stay, and so does every other task.
C10_UpdateFrame ==
    [][(HandlerStep /\ req'.op = "update" /\ resp'.status = 200) =>
        LET id == req'.task_id
            old == tasks[id]
            new == tasks'[id]
            data == req'.task_data
        IN  /\ old # NoTask
            /\ new # NoTask
            /\ IF data.title = None THEN new.title = old.title
               ELSE IsTrimOf(new.title, Val(data.title))
            /\ IF data.description = None
               THEN new.description = old.description
               ELSE /\ new.description # None
                    /\ IsTrimOf(Val(new.description), Val(data.description))
            /\ new.id = old.id
            /\ new.user_id = old.user_id
            /\ new.completed = old.completed
            /\ new.created_at = old.created_at
            /\ \A j \in TaskIds \ {id} : tasks'[j] = tasks[j]
            /\ nextId' = nextId]_vars

\* An update with a title and no description, of a task that has a
\* description, while another task is in the table.
C10_Witness ==
    /\ Handled
    /\ req.op = "update"
    /\ resp.status = 200
    /\ req.task_data.title # None
    /\ req.task_data.description = None
    /\ tasks[req.task_id].description # None
    /\ tasks[req.task_id].title = Strip(Val(req.task_data.title))
    /\ \E j \in TaskIds \ {req.task_id} : tasks[j] # NoTask

====
